---- MODULE Spec2Model ----
(***************************************************************************)
(* Model of sync_activists.py (class SyncActvists): the row-by-row         *)
(* reconciliation of an Action Network export against EveryAction, with    *)
(* its checkpoint log, --resume skip set, --dryrun mode and run window.    *)
(*                                                                         *)
(* Text is modelled as sequences of one-character strings where the code   *)
(* looks inside it (row ids in log lines, phone numbers), and as sequences *)
(* of tokens where the code only splits it (log lines, tag lists, paths).  *)
(***************************************************************************)
EXTENDS Integers, Sequences, FiniteSets, TLC

\* ------------------------------------------------------------------ bounds
\* Number of data rows of the export file.
NumRows == 2
\* Number of times the program is started on the same export and log.
MaxRuns == 2

\* ---------------------------------------------------------------- constants
MAXINDEX == 1000000
DEFAULT_LOGFILE == <<"FILENAME.LOG">>
None == "None"

\* ------------------------------------------------------------ text helpers
DigitStr == <<"0", "1", "2", "3", "4", "5", "6", "7", "8", "9">>
DigitChars == {DigitStr[i] : i \in 1..10}
DigitVal(c) == (CHOOSE i \in 1..10 : DigitStr[i] = c) - 1

\* str(n) for a natural number: its decimal digits.
RECURSIVE str(_)
str(n) == IF n < 10 THEN <<DigitStr[n + 1]>>
          ELSE str(n \div 10) \o <<DigitStr[(n % 10) + 1]>>

\* The format spec 0>w: right-align, fill with "0" up to width w.
RECURSIVE rjust0(_, _)
rjust0(s, w) == IF Len(s) >= w THEN s ELSE rjust0(<<"0">> \o s, w)

\* f"[{rowid:0>4}]"
FormatRowId(rowid) == <<"[">> \o rjust0(str(rowid), 4) \o <<"]">>

\* int(s) for a string of decimal digits.
RECURSIVE int(_)
int(s) == IF Len(s) = 0 THEN 0
          ELSE 10 * int(SubSeq(s, 1, Len(s) - 1)) + DigitVal(s[Len(s)])

\* s.lstrip(chars): drops every leading character that is in chars.
RECURSIVE lstrip(_, _)
lstrip(s, chars) == IF s # <<>> /\ Head(s) \in chars
                    THEN lstrip(Tail(s), chars) ELSE s

IsDigit(c) == c \in DigitChars

\* re.sub(r'\D', '', phone.lstrip('+1'))
digits(phone) == SelectSeq(lstrip(phone, {"+", "1"}), IsDigit)

\* A dict as a function with a finite domain.
DictSet(d, k, v) == [x \in (DOMAIN d) \cup {k} |-> IF x = k THEN v ELSE d[x]]
EmptyDict == [x \in {} |-> None]

\* A dict that keeps insertion order: a sequence of [k, v] items.
ODictHas(d, k) == \E i \in 1..Len(d) : d[i].k = k
ODictSet(d, k, v) ==
    IF ODictHas(d, k)
    THEN [i \in 1..Len(d) |-> IF d[i].k = k THEN [k |-> k, v |-> v] ELSE d[i]]
    ELSE Append(d, [k |-> k, v |-> v])

\* --------------------------------------------------------------- log lines
\* A log line is the sequence of its whitespace-separated tokens; the first
\* token is kept character by character.
HeaderRow(filename) == << <<"SyncFile:">>, filename >>
SyncTimeLine == << <<"SyncTime:">>, "date", "time" >>

\* log_actions: the line printed for a row.
LogStatusNoRewrite(dryrun, status) == status
LogStatus(dryrun, status) ==
    IF dryrun /\ status = "OK" THEN "DRYRUN" ELSE status
LogLine(dryrun, rowid, status, key, message) ==
    << FormatRowId(rowid), LogStatus(dryrun, status), key, message >>

\* ------------------------------------------------------------ init_logfile
\* The verbs of a log entry that put its row into the skip set.
SkipVerbsWithError == {"OK", "SKIP", "ERROR"}
SkipVerbsWithDryrun == {"OK", "SKIP", "DRYRUN"}
SkipVerbs == {"OK", "SKIP"}

\* The loop over the entries of an existing log: log_line.split(None, 2),
\* verb = token 1, itemid = int(token 0 without its brackets).
RECURSIVE ReadSkipItems(_, _)
ReadSkipItems(lines, skip) ==
    IF lines = <<>> THEN skip
    ELSE LET log_line_tokens == Head(lines)
             verb == log_line_tokens[2]
             tok == log_line_tokens[1]
         IN  ReadSkipItems(Tail(lines),
                 IF Len(log_line_tokens) >= 2 /\ verb \in SkipVerbs
                 THEN DictSet(skip, int(SubSeq(tok, 2, Len(tok) - 1)), verb)
                 ELSE skip)

NoFile == [isfile |-> FALSE, lines |-> <<>>]
Stdout == <<"/dev/stdout">>
IsConsole(logfilename) == logfilename = Stdout

\* The tests of init_logfile: the log is created fresh; an existing log is
\* refused; the first line of an existing log is the header of this export.
CreatesFreshIfMissing(isfile, overwrite) == ~isfile
CreatesFresh(isfile, overwrite) == ~isfile \/ overwrite
FailsFastNever(resume) == FALSE
FailsFast(resume) == ~resume
HeaderMatchesAny(log_line, header_row) == TRUE
HeaderMatches(log_line, header_row) == log_line = header_row

\* existing_logfile.readline(): the first line (<<>> at the end of the file),
\* and the lines left to read.
FirstLine(lines) == IF lines = <<>> THEN <<>> ELSE Head(lines)
RestLines(lines) == SubSeq(lines, 2, Len(lines))

\* init_logfile as a function of the flags and the file system: the log
\* name it settles on, the file system it leaves, the skip set, and the
\* exception it raises (None when it returns).
init_logfile(filename, logfilename, resume, overwrite, files) ==
    LET header_row == HeaderRow(filename)
    IN  IF logfilename = <<>> \/ logfilename = <<"-">>
        THEN [logfilename |-> Stdout, files |-> files,
              skip_item |-> EmptyDict, raised |-> None]
        ELSE IF logfilename = <<"og">>
        THEN [logfilename |-> logfilename, files |-> files,
              skip_item |-> EmptyDict, raised |-> "Exception"]
        ELSE
        LET name == IF logfilename = DEFAULT_LOGFILE
                    THEN <<filename, ".log">> ELSE logfilename
        IN  IF CreatesFresh(files[name].isfile, overwrite)
            THEN [logfilename |-> name,
                  files |-> [files EXCEPT ![name] =
                                [isfile |-> TRUE, lines |-> <<header_row>>]],
                  skip_item |-> EmptyDict, raised |-> None]
            ELSE IF FailsFast(resume)
            THEN [logfilename |-> name, files |-> files,
                  skip_item |-> EmptyDict, raised |-> "Exception"]
            ELSE IF ~HeaderMatches(FirstLine(files[name].lines), header_row)
            THEN [logfilename |-> name, files |-> files,
                  skip_item |-> EmptyDict, raised |-> "Warning"]
            ELSE [logfilename |-> name, files |-> files,
                  skip_item |-> ReadSkipItems(RestLines(files[name].lines), EmptyDict),
                  raised |-> None]

\* ---------------------------------------------------------- load_tag_mapping
ActivistCode(id, name) ==
    [kind |-> "ActivistCode", id |-> id, name |-> name, codeType |-> ""]
Code(id, name, codeType) ==
    [kind |-> "Code", id |-> id, name |-> name, codeType |-> codeType]

\* First loop: every activist code is registered under its name.
RECURSIVE LoadActivistCodes(_, _)
LoadActivistCodes(codes, code_by_name) ==
    IF codes = <<>> THEN code_by_name
    ELSE LoadActivistCodes(Tail(codes),
                           DictSet(code_by_name, Head(codes).name, Head(codes)))

\* Second loop: a code of type Tag is registered unless its name is taken.
RECURSIVE LoadCodesOverwrite(_, _)
LoadCodesOverwrite(codes, code_by_name) ==
    IF codes = <<>> THEN code_by_name
    ELSE LET code == Head(codes)
         IN  LoadCodesOverwrite(Tail(codes),
                 IF code.codeType = "Tag"
                 THEN DictSet(code_by_name, code.name, code)
                 ELSE code_by_name)
RECURSIVE LoadCodes(_, _)
LoadCodes(codes, code_by_name) ==
    IF codes = <<>> THEN code_by_name
    ELSE LET code == Head(codes)
         IN  LoadCodes(Tail(codes),
                 IF code.codeType = "Tag" /\ code.name \notin DOMAIN code_by_name
                 THEN DictSet(code_by_name, code.name, code)
                 ELSE code_by_name)

\* Inner loop over new.split(','), each name stripped.
RECURSIVE MapNamesFirstWins(_, _, _, _)
MapNamesFirstWins(old, names, code_by_name, tags_mapped) ==
    IF names = <<>> THEN tags_mapped
    ELSE MapNamesFirstWins(old, Tail(names), code_by_name,
             IF Head(names) \in DOMAIN code_by_name /\ old \notin DOMAIN tags_mapped
             THEN DictSet(tags_mapped, old, code_by_name[Head(names)])
             ELSE tags_mapped)
RECURSIVE MapNames(_, _, _, _)
MapNames(old, names, code_by_name, tags_mapped) ==
    IF names = <<>> THEN tags_mapped
    ELSE MapNames(old, Tail(names), code_by_name,
             IF Head(names) \in DOMAIN code_by_name
             THEN DictSet(tags_mapped, old, code_by_name[Head(names)])
             ELSE tags_mapped)

\* Outer loop over the rows of tags_mapping.csv.
RECURSIVE MapRows(_, _, _)
MapRows(rows, code_by_name, tags_mapped) ==
    IF rows = <<>> THEN tags_mapped
    ELSE MapRows(Tail(rows), code_by_name,
                 MapNames(Head(rows).old, Head(rows).new, code_by_name, tags_mapped))

load_tag_mapping(activist_codes, codes, mapping_rows) ==
    MapRows(mapping_rows,
            LoadCodes(codes, LoadActivistCodes(activist_codes, EmptyDict)),
            EmptyDict)

\* The activist codes a modelled installation may have.
AllActivistCodes == {ActivistCode(42, "Phoner"), ActivistCode(43, "Volunteer")}

\* The remote catalogs and the mapping file of the modelled installation.
RemoteActivistCodes == << ActivistCode(42, "Phoner") >>
RemoteCodes == << Code(7, "Volunteer", "Tag"), Code(8, "Web", "SourceCode") >>
TagsMappingFile == << [old |-> "Phone_Bank", new |-> <<"Phoner">>],
                      [old |-> "Vol", new |-> <<"Volunteer">>],
                      [old |-> "Gone", new |-> <<"Retired">>] >>

\* What load_tag_mapping reads: client.activist_codes.list(),
\* client.codes.list() and the rows of tags_mapping.csv.
Catalog(activist_codes, codes, mapping) ==
    [activist_codes |-> activist_codes, codes |-> codes, mapping |-> mapping]

\* ----------------------------------------------------------- row helpers
\* user.get(col, default)
Get(user, col, default) == IF col \in DOMAIN user THEN user[col] ELSE default

\* One generic phone column of get_user_phones' second loop.
AddPhone(acc, user, field) ==
    LET user_phone == Get(user, field, <<>>)
    IN  IF user_phone # <<>> /\ digits(user_phone) \notin acc.phone_digits
        THEN [phones |-> Append(acc.phones,
                                [phoneNumber |-> user_phone, phoneType |-> "",
                                 phoneOptInStatus |-> ""]),
              phone_digits |-> acc.phone_digits \cup {digits(user_phone)},
              user_actions |-> Append(acc.user_actions, field)]
        ELSE acc

\* get_user_phones: the phones of a row and the labels it appends.
get_user_phones(user, user_actions) ==
    LET user_mobile == Get(user, "can2_phone", <<>>)
        subscribed == Get(user, "can2_sms_status", "unknown") = "subscribed"
        mobile ==
            IF user_mobile # <<>>
            THEN [phones |-> << [phoneNumber |-> user_mobile, phoneType |-> "C",
                                 phoneOptInStatus |-> IF subscribed THEN "I" ELSE ""] >>,
                  phone_digits |-> {digits(user_mobile)},
                  user_actions |-> Append(user_actions,
                        IF subscribed THEN "mobile subscribed" ELSE "mobile")]
            ELSE [phones |-> <<>>, phone_digits |-> {}, user_actions |-> user_actions]
    IN  AddPhone(AddPhone(mobile, user, "Phone"), user, "Phone Number")

\* user['can2_user_tags'].split(", ") without the empty pieces: the field is
\* a sequence of tag tokens with ", " tokens between them.
IsTag(t) == t # ", "
SplitTags(field) == SelectSeq(field, IsTag)

\* First loop of sync_tags: code_by_name[user_code_id] = user_code_data for
\* every tag of the row that the mapping knows.
RECURSIVE CodesOfTags(_, _, _)
CodesOfTags(tags, mapping, code_by_name) ==
    IF tags = <<>> THEN code_by_name
    ELSE CodesOfTags(Tail(tags), mapping,
             IF Head(tags) \in DOMAIN mapping
             THEN ODictSet(code_by_name, mapping[Head(tags)].id, mapping[Head(tags)])
             ELSE code_by_name)

\* Second loop: the codes the contact already has are popped.
RECURSIVE PopExisting(_, _)
PopExisting(code_by_name, existing) ==
    IF code_by_name = <<>> THEN <<>>
    ELSE IF Head(code_by_name).k \in existing THEN PopExisting(Tail(code_by_name), existing)
    ELSE <<Head(code_by_name)>> \o PopExisting(Tail(code_by_name), existing)

IsActivistCode(item) == item.v.kind = "ActivistCode"

\* The activist codes sync_tags is left to apply, in dict order.
NewCodes(user, mapping, existing) ==
    SelectSeq(PopExisting(CodesOfTags(SplitTags(user["can2_user_tags"]), mapping, <<>>),
                          existing),
              IsActivistCode)

\* ------------------------------------------------------------ the export
Emails == <<"a@x.org", "b@x.org", "c@x.org", "d@x.org">>
FileName == "export_A.csv"
FieldNames == {"email", "can2_subscription_status", "can2_phone",
               "can2_sms_status", "Phone", "Phone Number", "can2_user_tags"}

\* The kinds of row of the modelled exports (the email column is added per
\* row): a subscribed activist with a mobile number, a duplicate of it in a
\* generic phone column and two tags; an unsubscribed activist with one tag.
RowKinds == <<
    [can2_subscription_status |-> "subscribed",
     can2_phone |-> <<"+", "1", "5">>, can2_sms_status |-> "subscribed",
     Phone |-> <<"5">>, can2_user_tags |-> <<"Phone_Bank", ", ", "Vol">>],
    [can2_subscription_status |-> "unsubscribed",
     can2_phone |-> <<>>, can2_sms_status |-> "",
     Phone |-> <<>>, can2_user_tags |-> <<"Phone_Bank">>] >>

\* A row as csv.DictReader yields it.
User(i, kind) ==
    [col \in FieldNames |->
        CASE col = "email" -> Emails[i]
          [] col = "can2_subscription_status" -> kind.can2_subscription_status
          [] col = "can2_phone" -> kind.can2_phone
          [] col = "can2_sms_status" -> kind.can2_sms_status
          [] col = "Phone" -> kind.Phone
          [] col = "Phone Number" -> <<>>
          [] OTHER -> kind.can2_user_tags]

\* The exports whose rows are of the given kinds (indices into RowKinds).
DataSets(kinds) ==
    { [filename |-> FileName, fieldnames |-> FieldNames,
       rows |-> [i \in 1..NumRows |-> User(i, RowKinds[k[i]])]] :
      k \in [1..NumRows -> kinds] }

\* ------------------------------------------------------- the remote service
\* A contact of the remote directory, keyed by its email: absent (<<>>) or
\* one record.
Contact(email, emails, codes) ==
    [van_id |-> email, emails |-> emails, phones |-> {}, codes |-> codes]
\* The kinds of contact of the modelled directories: none; a contact whose
\* preferred email has no subscription status; a subscribed contact that has
\* the activist code; a contact without a preferred email.
ContactKinds(email) == <<
    <<>>,
    << Contact(email, << [isPreferred |-> TRUE, subscriptionStatus |-> ""] >>, {}) >>,
    << Contact(email, << [isPreferred |-> TRUE, subscriptionStatus |-> "S"] >>, {42}) >>,
    << Contact(email, << [isPreferred |-> FALSE, subscriptionStatus |-> ""] >>, {}) >> >>

RowEmails == {Emails[i] : i \in 1..NumRows}

\* people.find_or_create(**fields): the contact with that email is created,
\* or found and overwritten with the fields.
find_or_create(directory, fields) ==
    LET old == directory[fields.email]
        email == [isPreferred |-> TRUE,
                  subscriptionStatus |-> IF fields.isSubscribed THEN "S" ELSE "U"]
        numbers == {fields.phones[i].phoneNumber : i \in 1..Len(fields.phones)}
    IN  [directory EXCEPT ![fields.email] =
            IF old = <<>>
            THEN << [van_id |-> fields.email, emails |-> <<email>>,
                     phones |-> numbers, codes |-> {}] >>
            ELSE << [old[1] EXCEPT !.emails = <<email>>,
                                   !.phones = @ \cup numbers] >>]

\* people.update(van_id, emails=[preferred]) with isSubscribed set.
update_emails(directory, van_id, isSubscribed) ==
    [directory EXCEPT ![van_id] =
        << [@[1] EXCEPT !.emails =
              [i \in 1..Len(@) |->
                 IF @[i].isPreferred
                 THEN [@[i] EXCEPT !.subscriptionStatus =
                                       IF isSubscribed THEN "S" ELSE "U"]
                 ELSE @[i]]] >>]

\* people.update(van_id, phones=phones)
update_phones(directory, van_id, phones) ==
    [directory EXCEPT ![van_id] =
        << [@[1] EXCEPT !.phones =
              @ \cup {phones[i].phoneNumber : i \in 1..Len(phones)}] >>]

\* people.apply_activist_code(code_id, vanId=van_id) for each of the codes.
apply_activist_codes(directory, van_id, codes) ==
    [directory EXCEPT ![van_id] = << [@[1] EXCEPT !.codes = @ \cup codes] >>]

\* The remote calls that change the directory.
MutationKeys == {<<"find_or_create", 0>>, <<"update_emails", 0>>,
                 <<"update_phones", 0>>} \cup
                {<<"apply_activist_code", c.id>> : c \in AllActivistCodes}
MutationKinds == {"find_or_create", "update_emails", "update_phones",
                  "apply_activist_code"}

\* ------------------------------------------------------------------ state
VARIABLES
    dataset,      \* the export file: filename, fieldnames, rows
    catalog,      \* the remote code catalogs and the rows of tags_mapping.csv
    remote,       \* the remote directory: email -> contact
    files,        \* the log files on disk: name -> [isfile, lines]
    runs,         \* how many times the program was started
    pc,           \* where the running program is; "idle" when none runs
    exit,         \* how the last run that ended, ended
    args,         \* self.args after __init__
    log0,         \* history: the lines of the log when the run began
    skip_item,    \* self.skip_item
    tag_mapping,  \* self.tag_mapping
    rowid,        \* sync_file's rowid
    person,       \* sync_file's person: <<>> for None
    user_actions, \* sync_file's user_actions
    logbuf,       \* lines printed to self.logfile and not yet flushed
    written,      \* history: the row entries this run printed, in order
    calls,        \* history: the remote calls this run made, <<rowid, call>>
    applied,      \* history: per row, how often each mutation succeeded
    live          \* history: the rows looked up by a run without --dryrun

vars == <<dataset, catalog, remote, files, runs, pc, exit, args, log0, skip_item,
          tag_mapping,
          rowid, person, user_actions, logbuf, written, calls, applied, live>>

LogNames == {<<FileName, ".log">>, <<"og">>}

NoArgs == [dryrun |-> FALSE, resume |-> FALSE, overwrite |-> FALSE,
           update |-> FALSE, start_row |-> 1, end_row |-> MAXINDEX,
           count |-> <<>>, logfilename |-> Stdout]

\* The directories in which every contact of the export is of one of the
\* given kinds (indices into ContactKinds).
Directories(kinds) ==
    {d \in [RowEmails -> UNION {{ContactKinds(e)[k] : k \in 1..4} : e \in RowEmails}] :
        \A e \in RowEmails : \E k \in kinds : d[e] = ContactKinds(e)[k]}

\* The state before the first run: an export, a directory, and the log files
\* found on disk.
InitFrom(datasets, directories, logs) ==
    /\ dataset \in datasets
    /\ remote \in directories
    /\ files \in logs
    /\ runs = 0
    /\ pc = "idle"
    /\ exit = "none"
    /\ args = NoArgs
    /\ log0 = <<>>
    /\ skip_item = EmptyDict
    /\ tag_mapping = EmptyDict
    /\ rowid = 0
    /\ person = <<>>
    /\ user_actions = <<>>
    /\ logbuf = <<>>
    /\ written = <<>>
    /\ calls = {}
    /\ applied = [r \in 1..NumRows |-> [k \in MutationKeys |-> 0]]
    /\ live = {}

\* The same with the catalogs and the mapping file of the modelled
\* installation.
InitWith(datasets, directories, logs) ==
    /\ catalog = Catalog(RemoteActivistCodes, RemoteCodes, TagsMappingFile)
    /\ InitFrom(datasets, directories, logs)

\* No log on disk, any directory.
Init == InitWith(DataSets(1..2), Directories(1..4), {[n \in LogNames |-> NoFile]})

\* ------------------------------------------------------------- sync_file's
\* locals that depend on the header of the export only
\* The test on the key column: 'email' in reader.fieldnames.
HasKeyColumnAlways(fieldnames) == TRUE
HasKeyColumn(fieldnames) == "email" \in fieldnames

check_email_subscription_status == "can2_subscription_status" \in dataset.fieldnames
check_phones == \E col \in {"Phone", "Phone Number", "can2_phone"} :
                    col \in dataset.fieldnames
check_tags == "can2_user_tags" \in dataset.fieldnames

user == dataset.rows[rowid]

\* The skip test of the row loop: rowid in self.skip_item.
SkippedNever(skip, r) == FALSE
Skipped(skip, r) == r \in DOMAIN skip

\* The window test of the row loop.
InWindowOpen(a, r) == a.start_row < r /\ r <= a.end_row
InWindow(a, r) == a.start_row <= r /\ r <= a.end_row

\* __init__'s derivation of end_row from --end / --count.
EndRowCountOff(start_row, end_row, count) ==
    IF end_row = <<>>
    THEN IF count # <<>> THEN start_row + count[1] ELSE MAXINDEX
    ELSE end_row[1]
EndRow(start_row, end_row, count) ==
    IF end_row = <<>>
    THEN IF count # <<>> THEN start_row + count[1] - 1 ELSE MAXINDEX
    ELSE end_row[1]

\* print(..., file=self.logfile, flush=True) and the close of the log: the
\* lines reach the file, or the console.
Flush(fs, name, lines) ==
    IF IsConsole(name) THEN fs ELSE [fs EXCEPT ![name].lines = @ \o lines]

\* Where the row goes after each step of the loop body.
PcAfterPhones(p) == IF p # <<>> /\ check_tags THEN "sync_tags" ELSE "log_actions"
PcAfterSubscription(p) == IF check_phones THEN "sync_phones" ELSE PcAfterPhones(p)
PcAfterLookup(p) == IF check_email_subscription_status
                    THEN "sync_email_subscription" ELSE PcAfterSubscription(p)

Called(kind) == calls' = calls \cup {<<rowid, kind>>}
Succeeded(keys) ==
    applied' = [applied EXCEPT ![rowid] =
                   [k \in MutationKeys |-> IF k \in keys THEN @[k] + 1 ELSE @[k]]]

\* An exception nobody catches leaves sync_file: the with block closes the
\* log, the interpreter exits.
Uncaught ==
    /\ pc' = "idle"
    /\ exit' = "crash"
    /\ files' = Flush(files, args.logfilename, logbuf)
    /\ logbuf' = <<>>

\* ---------------------------------------------------------------- actions
\* main(): SyncActvists(...) — __init__ with the parsed command line a.
Construct(a) ==
    /\ pc = "idle"
    /\ runs < MaxRuns
    /\ runs' = runs + 1
    /\ LET end_row == EndRow(a.start_row, a.end_row, a.count)
           log == init_logfile(dataset.filename, a.logfilename,
                               a.resume, a.overwrite, files)
       IN  /\ args' = [dryrun |-> a.dryrun, resume |-> a.resume,
                       overwrite |-> a.overwrite, update |-> a.update,
                       start_row |-> a.start_row, end_row |-> end_row,
                       count |-> a.count, logfilename |-> log.logfilename]
           /\ log0' = IF IsConsole(log.logfilename) THEN <<>>
                      ELSE files[log.logfilename].lines
           /\ files' = log.files
           /\ skip_item' = log.skip_item
           /\ IF log.raised # None
              THEN /\ pc' = "idle"
                   /\ exit' = "fatal"
                   /\ tag_mapping' = EmptyDict
              ELSE /\ pc' = "constructed"
                   /\ exit' = exit
                   /\ tag_mapping' = load_tag_mapping(catalog.activist_codes,
                                                      catalog.codes, catalog.mapping)
    /\ rowid' = 0
    /\ person' = <<>>
    /\ user_actions' = <<>>
    /\ logbuf' = <<>>
    /\ written' = <<>>
    /\ calls' = {}
    /\ UNCHANGED <<dataset, catalog, remote, applied,
                   live>>

\* sync_file up to the row loop: the log is opened for append, the SyncTime
\* line printed (not flushed), the header of the export checked.
SyncFileOpen ==
    /\ pc = "constructed"
    /\ IF ~HasKeyColumn(dataset.fieldnames)
       THEN /\ pc' = "idle"
            /\ exit' = "fatal"
            /\ files' = Flush(files, args.logfilename, <<SyncTimeLine>>)
            /\ logbuf' = <<>>
       ELSE /\ pc' = "loop"
            /\ logbuf' = <<SyncTimeLine>>
            /\ UNCHANGED <<files, exit>>
    /\ rowid' = 0
    /\ UNCHANGED <<dataset, catalog, remote, runs, args, log0, skip_item, tag_mapping, person,
                   user_actions, written, calls, applied,
                   live>>

\* for user in reader: the next row, the window test, the skip test; at the
\* end of the file the run is over.
NextRow ==
    /\ pc = "loop"
    /\ IF rowid < Len(dataset.rows)
       THEN /\ rowid' = rowid + 1
            /\ user_actions' = <<>>
            /\ pc' = IF ~InWindow(args, rowid + 1) THEN "loop"
                     ELSE IF Skipped(skip_item, rowid + 1) THEN "loop"
                     ELSE "lookup"
            /\ UNCHANGED <<files, logbuf, exit>>
       ELSE /\ pc' = "idle"
            /\ exit' = "done"
            /\ files' = Flush(files, args.logfilename, logbuf)
            /\ logbuf' = <<>>
            /\ UNCHANGED <<rowid, user_actions>>
    /\ UNCHANGED <<dataset, catalog, remote, runs, args, log0, skip_item, tag_mapping, person,
                   written, calls, applied,
                   live>>

\* people.lookup(email=...) and the branch on its result. The call returns
\* the contact or None, raises AttributeError (caught: ERROR is logged and
\* person is None), or raises another exception (not caught).
Lookup ==
    /\ pc = "lookup"
    /\ Called("lookup")
    /\ \E outcome \in {"returns", "AttributeError", "EAHTTPException"} :
        \/ /\ outcome = "returns"
           /\ person' = remote[user["email"]]
           /\ UNCHANGED <<files, logbuf, written>>
           /\ IF person' = <<>>
              THEN user_actions' = <<"create">> /\ pc' = "update_or_create"
              ELSE IF args.update
              THEN user_actions' = <<"update">> /\ pc' = "update_or_create"
              ELSE user_actions' = <<>> /\ pc' = PcAfterLookup(person')
           /\ UNCHANGED exit
        \/ /\ outcome = "AttributeError"
           /\ person' = <<>>
           /\ LET line == LogLine(args.dryrun, rowid, "ERROR", user["email"],
                                  <<"AttributeError">>)
              IN  /\ files' = Flush(files, args.logfilename, Append(logbuf, line))
                  /\ logbuf' = <<>>
                  /\ written' = Append(written, line)
           /\ user_actions' = <<"create">>
           /\ pc' = "update_or_create"
           /\ UNCHANGED exit
        \/ /\ outcome = "EAHTTPException"
           /\ Uncaught
           /\ UNCHANGED <<person, user_actions, written>>
    /\ UNCHANGED <<dataset, catalog, remote, runs, args, log0, skip_item, tag_mapping, rowid,
                   applied>>
    /\ live' = IF args.dryrun THEN live ELSE live \cup {rowid}

\* update_or_create, called for a contact that was not found or under
\* --update, and the rest of the loop body's first branch.
UpdateOrCreate ==
    /\ pc = "update_or_create"
    /\ LET got == get_user_phones(user, user_actions)
           fields == [email |-> user["email"],
                      isSubscribed |->
                          Get(user, "can2_subscription_status", "") = "unsubscribed",
                      phones |-> got.phones]
       IN  IF args.dryrun
           THEN /\ person' = <<>>
                /\ user_actions' = got.user_actions
                /\ pc' = PcAfterPhones(person')
                /\ UNCHANGED <<remote, calls, applied, files, logbuf, exit>>
           ELSE /\ Called("find_or_create")
                /\ \E raises \in BOOLEAN :
                    IF raises
                    THEN /\ Uncaught
                         /\ UNCHANGED <<remote, applied, person, user_actions>>
                    ELSE /\ remote' = find_or_create(remote, fields)
                         /\ Succeeded({<<"find_or_create", 0>>})
                         /\ person' = remote'[user["email"]]
                         /\ user_actions' = got.user_actions
                         /\ pc' = PcAfterPhones(person')
                         /\ UNCHANGED <<files, logbuf, exit>>
    /\ UNCHANGED <<dataset, catalog, runs, args, log0, skip_item, tag_mapping, rowid, written,
                   live>>

\* The preferred email sync_email_subscription's loop stops at: <<>> when the
\* loop ends without one, and person_subscription_status is never bound.
PreferredEmail(p) ==
    LET idx == {i \in 1..Len(p.emails) : p.emails[i].isPreferred}
    IN  IF idx = {} THEN <<>>
        ELSE << p.emails[CHOOSE i \in idx : \A j \in idx : i <= j] >>

\* sync_email_subscription for a contact that was found.
SyncEmailSubscription ==
    /\ pc = "sync_email_subscription"
    /\ LET preferred_contact_email == PreferredEmail(person[1])
       IN  IF preferred_contact_email = <<>>
           THEN \* UnboundLocalError: person_subscription_status
                /\ Uncaught
                /\ UNCHANGED <<remote, calls, applied, user_actions>>
           ELSE
           LET status == preferred_contact_email[1].subscriptionStatus
               person_subscription_status == IF status = "" THEN "None" ELSE status
               unsubscribed == user["can2_subscription_status"] = "unsubscribed"
               label == IF unsubscribed THEN "Unsubscribed(was None]"
                        ELSE "Subscribed[was None]"
           IN  IF person_subscription_status # "None"
               THEN /\ pc' = PcAfterSubscription(person)
                    /\ UNCHANGED <<remote, calls, applied, user_actions, files,
                                   logbuf, exit>>
               ELSE IF args.dryrun
               THEN /\ user_actions' = Append(user_actions, label)
                    /\ pc' = PcAfterSubscription(person)
                    /\ UNCHANGED <<remote, calls, applied, files, logbuf, exit>>
               ELSE /\ Called("update_emails")
                    /\ \E raises \in BOOLEAN :
                        IF raises
                        THEN /\ Uncaught
                             /\ UNCHANGED <<remote, applied, user_actions>>
                        ELSE /\ remote' = update_emails(remote, person[1].van_id,
                                                        ~unsubscribed)
                             /\ Succeeded({<<"update_emails", 0>>})
                             /\ user_actions' = Append(user_actions, label)
                             /\ pc' = PcAfterSubscription(person)
                             /\ UNCHANGED <<files, logbuf, exit>>
    /\ UNCHANGED <<dataset, catalog, runs, args, log0, skip_item, tag_mapping, rowid, person,
                   written,
                   live>>

\* sync_phones for a contact that was found; EAHTTPException is caught and
\* its text becomes a label.
SyncPhones ==
    /\ pc = "sync_phones"
    /\ LET got == get_user_phones(user, user_actions)
       IN  IF Len(got.phones) > 0 /\ ~args.dryrun
           THEN /\ Called("update_phones")
                /\ \E raises \in BOOLEAN :
                    IF raises
                    THEN /\ user_actions' = Append(got.user_actions, "EAHTTPException")
                         /\ UNCHANGED <<remote, applied>>
                    ELSE /\ remote' = update_phones(remote, person[1].van_id,
                                                    got.phones)
                         /\ Succeeded({<<"update_phones", 0>>})
                         /\ user_actions' = got.user_actions
           ELSE /\ user_actions' = got.user_actions
                /\ UNCHANGED <<remote, calls, applied>>
    /\ pc' = PcAfterPhones(person)
    /\ UNCHANGED <<dataset, catalog, files, runs, exit, args, log0, skip_item, tag_mapping,
                   rowid, person, logbuf, written,
                   live>>

\* The names of the first n codes, as labels.
CodeNames(codes, n) == [i \in 1..n |-> codes[i].v.name]
CodeKeys(codes, n) == {<<"apply_activist_code", codes[i].k>> : i \in 1..n}
CodeIds(codes, n) == {codes[i].k : i \in 1..n}

\* sync_tags: the codes of the row's tags that the contact lacks are applied
\* one by one; an exception of apply_activist_code is not caught, the codes
\* before it stay applied.
SyncTags ==
    /\ pc = "sync_tags"
    /\ LET van_id == person[1].van_id
           mapped == CodesOfTags(SplitTags(user["can2_user_tags"]), tag_mapping, <<>>)
           new == NewCodes(user, tag_mapping, remote[van_id][1].codes)
       IN  IF args.dryrun
           THEN /\ user_actions' = user_actions \o CodeNames(new, Len(new))
                /\ calls' = IF Len(mapped) > 0
                            THEN calls \cup {<<rowid, "activist_codes">>} ELSE calls
                /\ pc' = "log_actions"
                /\ UNCHANGED <<remote, applied, files, logbuf, exit>>
           ELSE \E n \in 0..Len(new) :
                /\ calls' = calls \cup
                      (IF Len(mapped) > 0 THEN {<<rowid, "activist_codes">>} ELSE {})
                      \cup (IF Len(new) > 0
                            THEN {<<rowid, "apply_activist_code">>} ELSE {})
                /\ remote' = apply_activist_codes(remote, van_id, CodeIds(new, n))
                /\ Succeeded(CodeKeys(new, n))
                /\ IF n = Len(new)
                   THEN /\ user_actions' = user_actions \o CodeNames(new, n)
                        /\ pc' = "log_actions"
                        /\ UNCHANGED <<files, logbuf, exit>>
                   ELSE /\ Uncaught
                        /\ UNCHANGED user_actions
    /\ UNCHANGED <<dataset, catalog, runs, args, log0, skip_item, tag_mapping, rowid, person,
                   written,
                   live>>

\* The last statement of the loop body: log_actions(rowid, "OK", ...).
LogRow ==
    /\ pc = "log_actions"
    /\ LET line == LogLine(args.dryrun, rowid, "OK", user["email"], user_actions)
       IN  /\ files' = Flush(files, args.logfilename, Append(logbuf, line))
           /\ logbuf' = <<>>
           /\ written' = Append(written, line)
    /\ pc' = "loop"
    /\ UNCHANGED <<dataset, catalog, remote, runs, exit, args, log0, skip_item, tag_mapping,
                   rowid, person, user_actions, calls, applied,
                   live>>

\* The process is terminated from outside while it runs. What was printed
\* and not flushed reaches the file or is lost.
Terminate ==
    /\ pc # "idle"
    /\ pc' = "idle"
    /\ exit' = "killed"
    /\ \E lost \in BOOLEAN :
          files' = IF lost THEN files ELSE Flush(files, args.logfilename, logbuf)
    /\ logbuf' = <<>>
    /\ UNCHANGED <<dataset, catalog, remote, runs, args, log0, skip_item, tag_mapping, rowid,
                   person, user_actions, written, calls, applied,
                   live>>

Row ==
    \/ NextRow
    \/ Lookup
    \/ UpdateOrCreate
    \/ SyncEmailSubscription
    \/ SyncPhones
    \/ SyncTags
    \/ LogRow

\* The command lines of the runs: every combination of --dryrun, --resume
\* and --overwrite on the default log, over the whole file, without --update.
CommandLines ==
    [dryrun : BOOLEAN, resume : BOOLEAN, overwrite : BOOLEAN, update : {FALSE},
     start_row : {1}, end_row : {<<>>}, count : {<<>>},
     logfilename : {DEFAULT_LOGFILE}]

Next ==
    \/ \E a \in CommandLines : Construct(a)
    \/ SyncFileOpen
    \/ Row
    \/ Terminate

Spec == Init /\ [][Next]_vars

\* ------------------------------------------------ one run with a row window
\* One run on a fresh log with --start and --end or --count (or neither),
\* live or dry, with or without --update, over contacts that are missing,
\* not yet synced or synced.
WindowCommandLines ==
    {a \in [dryrun : BOOLEAN, resume : {FALSE}, overwrite : {FALSE},
            update : BOOLEAN, start_row : 1..NumRows,
            end_row : {<<>>} \cup {<<e>> : e \in 1..NumRows},
            count : {<<>>} \cup {<<c>> : c \in 0..NumRows},
            logfilename : {DEFAULT_LOGFILE}] :
        a.end_row = <<>> \/ a.count = <<>>}

InitWindow == InitWith(DataSets(1..2), Directories(1..3), {[n \in LogNames |-> NoFile]})

NextWindow ==
    \/ \E a \in WindowCommandLines : runs = 0 /\ Construct(a)
    \/ SyncFileOpen
    \/ Row
    \/ Terminate

SpecWindow == InitWindow /\ [][NextWindow]_vars

\* ------------------------------------------------- resuming an existing log
\* The statuses of a checkpoint entry.
Statuses == {"OK", "DRYRUN", "ERROR", "NOT_FOUND", "MISMATCH_ID", "SKIP"}
\* The number of entries of the log found on disk.
MaxLogEntries == 2

ExistingEntries ==
    {<<FormatRowId(r), st, Emails[r], <<>> >> : r \in 1..NumRows, st \in Statuses}
ExistingLogs ==
    {<<HeaderRow(FileName)>> \o e :
        e \in UNION {[1..n -> ExistingEntries] : n \in 0..MaxLogEntries}}

\* One run with --resume on a log of this export that is found on disk, live
\* or dry, over contacts that are not yet synced.
ResumeCommandLines ==
    [dryrun : BOOLEAN, resume : {TRUE}, overwrite : {FALSE}, update : {FALSE},
     start_row : {1}, end_row : {<<>>}, count : {<<>>},
     logfilename : {DEFAULT_LOGFILE}]

InitLog ==
    InitWith(DataSets({1}), Directories({2}),
             {[n \in LogNames |-> [isfile |-> TRUE, lines |-> l]] :
                 l \in ExistingLogs})

NextLog ==
    \/ \E a \in ResumeCommandLines : runs = 0 /\ Construct(a)
    \/ SyncFileOpen
    \/ Row
    \/ Terminate

SpecLog == InitLog /\ [][NextLog]_vars

\* ------------------------------------------------- one run per tag catalog
\* The lists client.activist_codes.list() may return.
ActivistCodeLists ==
    { <<>>,
      << ActivistCode(42, "Phoner") >>,
      << ActivistCode(42, "Phoner"), ActivistCode(43, "Volunteer") >> }

\* The lists client.codes.list() may return: none; the Tag Volunteer and a
\* source code; a Tag whose id is that of the activist code Phoner; a Tag
\* whose name is that of the activist code Phoner, alone and before another.
CodeLists ==
    { <<>>,
      RemoteCodes,
      << Code(42, "Volunteer", "Tag") >>,
      << Code(7, "Phoner", "Tag") >>,
      << Code(7, "Phoner", "Tag"), Code(9, "Volunteer", "Tag") >> }

\* The rows of tags_mapping.csv: an old tag and the names of its new field,
\* split at the commas and stripped.
MappingRows ==
    [old : {"Phone_Bank", "Vol"},
     new : {<<"Phoner">>, <<"Retired", "Phoner">>, <<"Phoner", "Volunteer">>}]
\* The number of rows of tags_mapping.csv.
MaxMappingRows == 2
MappingFiles == UNION {[1..n -> MappingRows] : n \in 0..MaxMappingRows}

Catalogs ==
    {Catalog(a, c, m) : a \in ActivistCodeLists, c \in CodeLists, m \in MappingFiles}

\* The directories in which all contacts of the export are of the same kind.
UniformDirectories(kinds) == {[e \in RowEmails |-> ContactKinds(e)[k]] : k \in kinds}
\* The directory in which the contact of the first row is not yet synced and
\* the others have the activist code 42.
MixedDirectory ==
    [e \in RowEmails |-> IF e = Emails[1] THEN ContactKinds(e)[2] ELSE ContactKinds(e)[3]]

\* One live run on a fresh log over rows tagged Phone_Bank and Vol, with any
\* of the catalogs.
TagCommandLines ==
    [dryrun : {FALSE}, resume : {FALSE}, overwrite : {FALSE}, update : {FALSE},
     start_row : {1}, end_row : {<<>>}, count : {<<>>},
     logfilename : {DEFAULT_LOGFILE}]

InitTags ==
    /\ catalog \in Catalogs
    /\ InitFrom(DataSets({1}), {MixedDirectory}, {[n \in LogNames |-> NoFile]})

NextTags ==
    \/ \E a \in TagCommandLines : runs = 0 /\ Construct(a)
    \/ SyncFileOpen
    \/ Row
    \/ Terminate

SpecTags == InitTags /\ [][NextTags]_vars

\* ------------------------------------------------ one run per export file
\* The values of a phone column: empty, or a number as the activist typed it.
PhoneNumbers ==
    { <<>>, <<"5">>, <<"1", "5">>, <<"+", "1", "5">>, <<"(", "1", ")", "5">>,
      <<"1", "1", "5">>, <<"5", "-", "1">>, <<"5", "1">> }

\* A row with the three phone columns filled in.
PhoneUser(i, mobile, phone, number) ==
    [User(i, RowKinds[1]) EXCEPT !["can2_phone"] = mobile, !["Phone"] = phone,
                                 !["Phone Number"] = number]

\* The exports whose first row has any phone columns.
PhoneDataSets ==
    { [filename |-> FileName, fieldnames |-> FieldNames,
       rows |-> [i \in 1..NumRows |->
                   IF i = 1 THEN PhoneUser(i, m, p, n) ELSE User(i, RowKinds[2])]] :
      m \in PhoneNumbers, p \in PhoneNumbers, n \in PhoneNumbers }

\* An export without the email column.
NoEmailDataSets ==
    { [filename |-> FileName, fieldnames |-> FieldNames \ {"email"},
       rows |-> [i \in 1..NumRows |->
                   [col \in FieldNames \ {"email"} |-> User(i, RowKinds[k])[col]]]] :
      k \in 1..Len(RowKinds) }

\* One run on a fresh log, live or dry, over contacts that are missing or
\* not yet synced.
ExportCommandLines ==
    [dryrun : BOOLEAN, resume : {FALSE}, overwrite : {FALSE}, update : {FALSE},
     start_row : {1}, end_row : {<<>>}, count : {<<>>},
     logfilename : {DEFAULT_LOGFILE}]

InitExport ==
    InitWith(PhoneDataSets \cup NoEmailDataSets, UniformDirectories({1, 2}),
             {[n \in LogNames |-> NoFile]})

NextExport ==
    \/ \E a \in ExportCommandLines : runs = 0 /\ Construct(a)
    \/ SyncFileOpen
    \/ Row
    \/ Terminate

SpecExport == InitExport /\ [][NextExport]_vars

\* --------------------------------------------------- one run per log found
\* The logs a run may find under the default name: an empty file, or the
\* log of this export or of another one, with entries of rows that succeeded
\* or failed.
OtherFileName == "export_B.csv"
FoundEntries ==
    {<<FormatRowId(r), st, Emails[r], <<>> >> : r \in 1..NumRows, st \in {"OK", "ERROR"}}
FoundLogs ==
    {<<>>} \cup
    {<<HeaderRow(f)>> \o e :
        f \in {FileName, OtherFileName},
        e \in UNION {[1..n -> FoundEntries] : n \in 0..MaxLogEntries}}

\* One live run with any of --resume and --overwrite, on the default log,
\* on the console, or on a log named og.
OpenCommandLines ==
    [dryrun : {FALSE}, resume : BOOLEAN, overwrite : BOOLEAN, update : {FALSE},
     start_row : {1}, end_row : {<<>>}, count : {<<>>},
     logfilename : {DEFAULT_LOGFILE, <<"-">>, <<"og">>}]

InitOpen ==
    InitWith(DataSets({1}), UniformDirectories({2}),
             {[n \in LogNames |->
                 IF n = <<"og">> THEN NoFile ELSE f] :
              f \in {NoFile} \cup {[isfile |-> TRUE, lines |-> l] : l \in FoundLogs}})

NextOpen ==
    \/ \E a \in OpenCommandLines : runs = 0 /\ Construct(a)
    \/ SyncFileOpen
    \/ Row
    \/ Terminate

SpecOpen == InitOpen /\ [][NextOpen]_vars

\* ------------------------------------------ dry and live runs on one log
\* Runs with any of --dryrun and --resume, one after the other on the same
\* log, over an export of subscribed activists whose contacts are all missing
\* or all not yet synced.
DryCommandLines ==
    [dryrun : BOOLEAN, resume : BOOLEAN, overwrite : {FALSE}, update : {FALSE},
     start_row : {1}, end_row : {<<>>}, count : {<<>>},
     logfilename : {DEFAULT_LOGFILE}]

InitDry ==
    InitWith(DataSets({1}), UniformDirectories({1, 2}), {[n \in LogNames |-> NoFile]})

NextDry ==
    \/ \E a \in DryCommandLines : Construct(a)
    \/ SyncFileOpen
    \/ Row
    \/ Terminate

SpecDry == InitDry /\ [][NextDry]_vars

\* ================================================================ claims
\* A line is the entry of row r with one of the statuses.
EntryOf(line, r, statuses) ==
    Len(line) = 4 /\ line[1] = FormatRowId(r) /\ line[2] \in statuses
LoggedAs(lines, r, statuses) ==
    \E i \in 1..Len(lines) : EntryOf(lines[i], r, statuses)

\* The run was started with --resume on a log file that existed, without
\* --overwrite: the case in which the program resumes.
ResumeInEffect ==
    /\ args.resume /\ ~args.overwrite
    /\ ~IsConsole(args.logfilename)
    /\ log0 # <<>>

\* The last run that was started ran to the end of the export.
RunDone == pc = "idle" /\ exit = "done"

\* The rows this run looked up, and the mutation calls it made.
Evaluated == {r \in 1..NumRows : <<r, "lookup">> \in calls}
Mutations == {c \in calls : c[2] \in MutationKinds}

\* C1: when the log a --resume run finds records OK for every row of the
\* export, the run skips every row: it makes no remote call at all (no
\* lookup, no create, update or apply-code) and writes no entry.
C1_ResumeIdempotent ==
    (ResumeInEffect /\ \A r \in 1..NumRows : LoggedAs(log0, r, {"OK"}))
        => (calls = {} /\ written = <<>>)

\* A resumed run over a fully synced export ran to its end.
C1_Witness ==
    /\ RunDone /\ ResumeInEffect /\ runs = 2
    /\ \A r \in 1..NumRows : LoggedAs(log0, r, {"OK"})
    /\ \E r \in 1..NumRows, k \in MutationKeys : applied[r][k] > 0

\* An earlier attempt of row r ended in success: the log has an OK or SKIP
\* entry of r that does not follow an ERROR entry of the same attempt.
SucceededBefore(r) ==
    \E i \in 2..Len(log0) :
        /\ EntryOf(log0[i], r, {"OK", "SKIP"})
        /\ ~EntryOf(log0[i - 1], r, {"ERROR"})

\* C2: a --resume run skips a row if and only if an earlier attempt of the
\* row succeeded; a row whose attempt ended in a lookup fault is evaluated
\* again. Stated of a resumed run that ran to its end: the rows it evaluated
\* are exactly those without an earlier success.
C2_ResumeRetriesFaults ==
    (RunDone /\ ResumeInEffect)
        => Evaluated = {r \in 1..NumRows : ~SucceededBefore(r)}

\* C3: the skip set of a resumed run is exactly the set of the rows with an
\* OK or SKIP entry in the log it found; rows recorded only as ERROR,
\* NOT_FOUND, MISMATCH_ID (or DRYRUN) are not in it, and those are the rows
\* the run evaluates.
C3_SkipSet ==
    LET ok == {r \in 1..NumRows : LoggedAs(log0, r, {"OK", "SKIP"})}
    IN  ResumeInEffect =>
          /\ pc = "constructed" => DOMAIN skip_item = ok
          /\ pc = "lookup" => rowid \notin ok
          /\ RunDone => Evaluated = (1..NumRows) \ ok

\* A resumed run is looking up a row recorded as ERROR while another row,
\* recorded as OK, was skipped.
C3_Witness ==
    /\ ResumeInEffect /\ pc = "lookup"
    /\ LoggedAs(log0, rowid, {"ERROR"})
    /\ \E r \in 1..NumRows : r < rowid /\ LoggedAs(log0, r, {"OK"}) /\ r \notin Evaluated

\* The entries this run wrote for row r.
EntriesOf(r) == {i \in 1..Len(written) : written[i][1] = FormatRowId(r)}

\* C4: in a run that ran to its end, every row inside the window and not in
\* the skip set has exactly one entry, whatever its outcome, and every other
\* row has none.
C4_OneEntryPerRow ==
    RunDone =>
        \A r \in 1..NumRows :
            Cardinality(EntriesOf(r)) =
                IF InWindow(args, r) /\ r \notin DOMAIN skip_item THEN 1 ELSE 0

\* C5: when the first run was terminated and the second run resumes it, no
\* mutation of a row has been applied more than once over the two runs.
\* Rows with a lookup fault in either run are left out.
C5_ExactlyOnceAcrossCrash ==
    (runs = 2 /\ pc # "idle" /\ exit = "killed" /\ ResumeInEffect)
        => \A r \in 1..NumRows, k \in MutationKeys :
              LoggedAs(files[args.logfilename].lines, r, {"ERROR"})
                  \/ applied[r][k] <= 1

\* C6: a run with --dryrun makes no create, update or apply-code call,
\* leaves the directory as it is, and writes no OK entry: what a live run
\* logs as OK it logs as DRYRUN.
C6_DryRunNoMutation ==
    [][args'.dryrun =>
         /\ Mutations' = {}
         /\ \A i \in 1..Len(written') : written'[i][2] \in {"DRYRUN", "ERROR"}
         /\ runs' = runs => (remote' = remote /\ applied' = applied)]_vars

\* A dry run has logged DRYRUN for a row for which it decided on a mutation.
C6_Witness ==
    /\ args.dryrun /\ RunDone
    /\ \E i \in 1..Len(written) :
          written[i][2] = "DRYRUN" /\ Len(written[i][4]) > 0

\* The labels of an entry say that the run had --update.
Updating(message) == \E i \in 1..Len(message) : message[i] = "update"
\* The labels of an entry hold the text of a remote fault.
Faulty(message) == \E i \in 1..Len(message) : message[i] = "EAHTTPException"

\* C7: a dry run and then a live run of the same export, with the same flags
\* and (the dry run changing nothing) from the same directory: the labels
\* of a row's DRYRUN entry and of its OK entry are the same. Rows with a
\* remote fault in either run are left out.
C7_DryRunSameLabels ==
    (runs = 2 /\ ~args.dryrun /\ ~IsConsole(args.logfilename)) =>
        LET lines == files[args.logfilename].lines
        IN  \A r \in 1..NumRows, i, j \in 1..Len(lines) :
                ( /\ EntryOf(lines[i], r, {"DRYRUN"})
                  /\ EntryOf(lines[j], r, {"OK"})
                  /\ ~LoggedAs(lines, r, {"ERROR"})
                  /\ ~Faulty(lines[i][4]) /\ ~Faulty(lines[j][4])
                  /\ Updating(lines[i][4]) <=> Updating(lines[j][4]) )
                => lines[i][4] = lines[j][4]

\* The window the command line asks for: [s, s + c - 1] with --count c,
\* [s, e] with --end e.
InClaimedWindow(r) ==
    /\ args.start_row <= r
    /\ IF args.count # <<>> THEN r <= args.start_row + args.count[1] - 1
       ELSE r <= args.end_row

\* C8: only rows inside the window are looked up, mutated or logged, and a
\* run that ran to its end (on a fresh log) evaluated every row inside it.
C8_Window ==
    /\ \A c \in calls : InClaimedWindow(c[1])
    /\ \A r \in 1..NumRows : EntriesOf(r) # {} => InClaimedWindow(r)
    /\ RunDone => Evaluated = {r \in 1..NumRows : InClaimedWindow(r)}

\* A run with --count ran to its end, evaluated a row and left a row out.
C8_Witness ==
    /\ RunDone /\ args.count # <<>>
    /\ Evaluated # {} /\ Evaluated # 1..NumRows
    /\ written # <<>>

\* The row's contact was found by the lookup and is synced delta by delta.
DeltaSteps == {"sync_email_subscription", "sync_phones", "sync_tags"}
FoundContact ==
    /\ person # <<>>
    /\ user_actions = <<>> \/ Head(user_actions) \notin {"create", "update"}

\* C9: a remote mutation call made while a delta is applied to a found
\* contact never ends the run, whether it fails or not.
C9_DeltaFaultsAreRowLocal ==
    [][(pc \in DeltaSteps /\ FoundContact
        /\ \E c \in calls' \ calls : c[2] \in MutationKinds)
       => pc' # "idle"]_vars

\* C10: a row whose lookup fault was logged as ERROR gets no create, update
\* or apply-code call.
C10_LookupFaultNoMutation ==
    \A r \in 1..NumRows :
        EntriesOf(r) # {} /\ (\E i \in EntriesOf(r) : written[i][2] = "ERROR")
            => ~\E c \in Mutations : c[1] = r

\* The activist codes the tags of a row resolve to through the tag mapping.
ResolvedActivistCodes(u) ==
    {tag_mapping[t].id :
        t \in {x \in DOMAIN tag_mapping :
                  /\ \E i \in 1..Len(u["can2_user_tags"]) : u["can2_user_tags"][i] = x
                  /\ tag_mapping[x].kind = "ActivistCode"}}

\* How often this step applied activist code id to the row's contact.
AppliedNow(id) ==
    applied'[rowid][<<"apply_activist_code", id>>]
        - applied[rowid][<<"apply_activist_code", id>>]

\* C11: when the tag delta of a found contact completes in a live run, every
\* activist code that a tag of the row resolves to and that the contact did
\* not have was applied exactly once, and no other code was applied.
C11_TagDelta ==
    [][(pc = "sync_tags" /\ pc' = "log_actions" /\ ~args.dryrun /\ FoundContact)
       => \A c \in AllActivistCodes :
            AppliedNow(c.id) =
                IF c.id \in ResolvedActivistCodes(user) \ person[1].codes
                THEN 1 ELSE 0]_vars

\* A phone number as the specification compares it: its digits only, without
\* a leading country code 1.
NormalPhone(phone) ==
    LET d == SelectSeq(phone, IsDigit)
    IN  IF d # <<>> /\ Head(d) = "1" THEN Tail(d) ELSE d

\* The phone columns of a row that are filled in.
PhoneColumns(u) ==
    {u[col] : col \in {"can2_phone", "Phone", "Phone Number"}} \ {<<>>}

\* C12: the phones extracted from a row hold no two numbers that are equal
\* after keeping the digits and dropping a leading country code 1, and every
\* number of the row is there up to that normalisation.
C12_PhoneDedup ==
    pc \in {"update_or_create", "sync_phones"} =>
        LET phones == get_user_phones(user, user_actions).phones
        IN  /\ \A i, j \in 1..Len(phones) :
                 i # j => NormalPhone(phones[i].phoneNumber)
                             # NormalPhone(phones[j].phoneNumber)
            /\ \A p \in PhoneColumns(user) :
                 \E i \in 1..Len(phones) :
                    NormalPhone(phones[i].phoneNumber) = NormalPhone(p)

\* The lines of the log file of the run that are row entries.
LogEntries ==
    IF IsConsole(args.logfilename) THEN <<>>
    ELSE SelectSeq(files[args.logfilename].lines,
                   LAMBDA line : Len(line) = 4)

\* C16: when the header of the export has no email column, the run ends
\* before the row loop with a failure status: it makes no remote call, changes
\* nothing remotely, writes no row entry, and never ends as a completed run.
C16_MissingKeyColumn ==
    (runs > 0 /\ "email" \notin dataset.fieldnames) =>
        /\ pc \in {"idle", "constructed"}
        /\ pc = "idle" => exit \in {"fatal", "killed"}
        /\ calls = {} /\ written = <<>> /\ LogEntries = <<>>
        /\ \A r \in 1..NumRows, k \in MutationKeys : applied[r][k] = 0

\* A run over an export without the email column has ended by sys.exit.
C16_Witness ==
    /\ runs > 0 /\ "email" \notin dataset.fieldnames
    /\ pc = "idle" /\ exit = "fatal"
    /\ files[args.logfilename].lines = <<HeaderRow(FileName), SyncTimeLine>>

\* The program is started: the step of __init__, with the log name it
\* settles on.
Starts == pc = "idle" /\ runs' = runs + 1
LogOnDisk == ~IsConsole(args'.logfilename) /\ files[args'.logfilename].isfile
\* __init__ raised: nothing was evaluated, called or written.
Aborted ==
    /\ pc' = "idle" /\ exit' = "fatal"
    /\ calls' = {} /\ written' = <<>>
    /\ remote' = remote /\ applied' = applied
    /\ files' = files

\* C13: started on a log file that exists, with neither --resume nor
\* --overwrite, the program aborts in __init__: no row is evaluated, no
\* remote call is made, and the log file is exactly as it was.
C13_ExistingLogFailsFast ==
    [][(Starts /\ LogOnDisk /\ ~args'.resume /\ ~args'.overwrite)
       => Aborted]_vars

\* A run without flags was refused on a log that holds entries, and the
\* entries are still there.
C13_Witness ==
    /\ runs > 0 /\ pc = "idle" /\ exit = "fatal"
    /\ ~args.resume /\ ~args.overwrite
    /\ args.logfilename = <<FileName, ".log">>
    /\ log0 # <<>> /\ Head(log0) = HeaderRow(FileName)
    /\ LoggedAs(files[args.logfilename].lines, 1, {"OK"})

\* The log found on disk does not begin with the header of this export.
HeaderMismatch ==
    LET lines == files[args'.logfilename].lines
    IN  lines = <<>> \/ Head(lines) # HeaderRow(dataset.filename)

\* C14: started with --resume on an existing log whose first line is not the
\* header of this export, the program aborts in __init__: no row is
\* evaluated, the skip set stays empty, and the log file is exactly as it was.
C14_HeaderMismatchFatal ==
    [][(Starts /\ LogOnDisk /\ args'.resume /\ ~args'.overwrite /\ HeaderMismatch)
       => (Aborted /\ skip_item' = EmptyDict)]_vars

\* A --resume run was refused on the log of another export that records a
\* row as OK.
C14_Witness ==
    /\ runs > 0 /\ pc = "idle" /\ exit = "fatal"
    /\ args.resume /\ ~args.overwrite
    /\ args.logfilename = <<FileName, ".log">>
    /\ log0 # <<>> /\ Head(log0) = HeaderRow(OtherFileName)
    /\ LoggedAs(files[args.logfilename].lines, 1, {"OK"})
    /\ skip_item = EmptyDict

\* The cases without resumption: the log goes to the console, or the log
\* file is not on disk, or --overwrite was given.
OpensWithoutResumption ==
    \/ IsConsole(args'.logfilename)
    \/ ~files[args'.logfilename].isfile
    \/ args'.overwrite

\* __init__ returned with an empty skip set and, unless the log goes to the
\* console, a log file that holds the header line of this export and nothing
\* else.
OpenedFresh ==
    /\ pc' = "constructed"
    /\ skip_item' = EmptyDict
    /\ ~IsConsole(args'.logfilename) =>
          files'[args'.logfilename] =
              [isfile |-> TRUE, lines |-> <<HeaderRow(dataset.filename)>>]

\* C20, as stated: in each of the cases without resumption the program
\* starts, whether --resume was given or not, with an empty skip set and a
\* fresh log.
C20_OpensFresh ==
    [][(Starts /\ OpensWithoutResumption) => OpenedFresh]_vars

\* C20, amended: the same for every log name but og, which __init__ rejects.
C20_OpensFreshUnlessOg ==
    [][(Starts /\ OpensWithoutResumption /\ args'.logfilename # <<"og">>)
       => OpenedFresh]_vars

\* A run with --resume and --overwrite has replaced a log that recorded a row
\* as OK by the header line, and has an empty skip set.
C20_Witness ==
    /\ pc = "constructed" /\ args.resume /\ args.overwrite
    /\ LoggedAs(log0, 1, {"OK"})
    /\ files[args.logfilename].lines = <<HeaderRow(FileName)>>
    /\ skip_item = EmptyDict

\* The remote codes by kind, and the names the mapping file lists for an old
\* tag.
RemoteActivist == {catalog.activist_codes[i] : i \in 1..Len(catalog.activist_codes)}
RemoteTags == {c \in {catalog.codes[i] : i \in 1..Len(catalog.codes)} :
                  c.codeType = "Tag"}
NamesFor(old) ==
    UNION {{catalog.mapping[i].new[j] : j \in 1..Len(catalog.mapping[i].new)} :
              i \in {k \in 1..Len(catalog.mapping) : catalog.mapping[k].old = old}}
OldTags == {catalog.mapping[i].old : i \in 1..Len(catalog.mapping)}

\* C15: once the program has started, whatever the catalogs and the mapping
\* file: startup did not fail; an old tag is mapped if and only if one of
\* the names listed for it is the name of a remote activist code or Tag; it
\* is mapped to a remote code of such a name; and to an activist code
\* whenever an activist code has that name.
C15_TagCatalog ==
    runs > 0 =>
        /\ exit # "fatal"
        /\ DOMAIN tag_mapping =
              {old \in OldTags :
                  \E c \in RemoteActivist \cup RemoteTags : c.name \in NamesFor(old)}
        /\ \A old \in DOMAIN tag_mapping :
              LET code == tag_mapping[old]
              IN  /\ code \in RemoteActivist \cup RemoteTags
                  /\ code.name \in NamesFor(old)
                  /\ (\E a \in RemoteActivist : a.name = code.name)
                        => code \in RemoteActivist

\* The program started where a Tag has the name of the activist code Phoner
\* and the mapping file lists an unknown name before Phoner: Phone_Bank is
\* mapped to the activist code 42.
C15_Witness ==
    /\ pc = "constructed"
    /\ Code(7, "Phoner", "Tag") \in RemoteTags
    /\ \E i \in 1..Len(catalog.mapping) :
          catalog.mapping[i] = [old |-> "Phone_Bank", new |-> <<"Retired", "Phoner">>]
    /\ "Phone_Bank" \in DOMAIN tag_mapping
    /\ tag_mapping["Phone_Bank"] = ActivistCode(42, "Phoner")

\* The subscription update the specification asks for, for the row and the
\* contact at hand: an unsubscribe when the row says unsubscribed and the
\* preferred email is not unsubscribed yet, a subscribe when the row says
\* subscribed and the preferred email has no status; none without a preferred
\* email.
SubscriptionDue ==
    LET preferred == PreferredEmail(person[1])
        declared == user["can2_subscription_status"]
    IN  /\ preferred # <<>>
        /\ \/ declared = "unsubscribed" /\ preferred[1].subscriptionStatus # "U"
           \/ declared = "subscribed" /\ preferred[1].subscriptionStatus = ""

\* C17: in a live run the subscription step of a found contact calls
\* people.update(emails=...) if and only if an update is due, and when it
\* calls nothing the run goes on.
C17_SubscriptionDelta ==
    [][(pc = "sync_email_subscription" /\ ~args.dryrun
        /\ ~(pc' = "idle" /\ exit' = "killed"))
       => LET pushed == <<rowid, "update_emails">> \in calls' \ calls
          IN  /\ pushed <=> SubscriptionDue
              /\ ~pushed => pc' # "idle"]_vars

\* The row index an entry carries.
RowOf(line) == int(SubSeq(line[1], 2, Len(line[1]) - 1))

\* C18: the entries a run has written carry strictly increasing row indices,
\* and while a row is worked on no later row has been called for and every
\* earlier row that was looked up has its entry.
C18_JournalOrder ==
    /\ \A i \in 1..Len(written) - 1 : RowOf(written[i]) < RowOf(written[i + 1])
    /\ pc # "idle" =>
          /\ \A c \in calls : c[1] <= rowid
          /\ \A r \in Evaluated : r < rowid => EntriesOf(r) # {}

\* C19: whatever runs came before, the skip set of a run holds only rows
\* that an earlier run without --dryrun looked up; and when a live --resume
\* run has run to its end, every row of the export has been looked up by a
\* live run: the rows that only dry runs had evaluated, by this one.
C19_DryRunsNotSkipped ==
    /\ DOMAIN skip_item \subseteq live \ Evaluated
    /\ (RunDone /\ ResumeInEffect /\ ~args.dryrun) =>
          \A r \in 1..NumRows : r \in live /\ (r \in Evaluated \/ r \in DOMAIN skip_item)

\* A live --resume run on the log of a dry run that recorded every row as
\* DRYRUN has run to its end, has evaluated every row and has changed the
\* directory.
C19_Witness ==
    /\ RunDone /\ ResumeInEffect /\ ~args.dryrun /\ runs = MaxRuns
    /\ \A r \in 1..NumRows : LoggedAs(log0, r, {"DRYRUN"}) /\ ~LoggedAs(log0, r, {"OK"})
    /\ Evaluated = 1..NumRows
    /\ \A r \in 1..NumRows : \E k \in MutationKeys : applied[r][k] > 0

\* C21: whenever the program runs with a command line it accepted, the
\* window it derived satisfies 1 <= start_row <= end_row.
C21_RunWindow ==
    pc # "idle" => (1 <= args.start_row /\ args.start_row <= args.end_row)

\* The status of the preferred email of the contact of the row at hand,
\* after the step.
PushedStatus ==
    PreferredEmail(remote'[user["email"]][1])[1].subscriptionStatus

\* C22: when find_or_create has created or re-pushed the contact of a row,
\* the contact's email is subscribed if and only if the row does not declare
\* unsubscribed.
C22_CreateSubscriptionAgrees ==
    [][(pc = "update_or_create" /\ <<rowid, "find_or_create">> \in calls'
        /\ applied'[rowid][<<"find_or_create", 0>>]
              > applied[rowid][<<"find_or_create", 0>>])
       => (PushedStatus = "S"
             <=> user["can2_subscription_status"] # "unsubscribed")]_vars

\* The names listed for an old tag, in file order: the new fields of its
\* rows, one after the other.
RECURSIVE NamesInOrder(_, _)
NamesInOrder(rows, old) ==
    IF rows = <<>> THEN <<>>
    ELSE (IF Head(rows).old = old THEN Head(rows).new ELSE <<>>)
            \o NamesInOrder(Tail(rows), old)

\* A name is the name of a remote activist code or Tag.
Resolvable(name) == \E c \in RemoteActivist \cup RemoteTags : c.name = name

\* The last of the names that is resolvable.
LastResolvable(names) ==
    names[CHOOSE i \in 1..Len(names) :
              /\ Resolvable(names[i])
              /\ \A j \in (i + 1)..Len(names) : ~Resolvable(names[j])]

\* The tag mapping holds, for each old tag with a resolvable name, the one
\* code of the last resolvable name listed for it.
LastWriteWins ==
    \A old \in OldTags :
        LET names == NamesInOrder(catalog.mapping, old)
        IN  (\E i \in 1..Len(names) : Resolvable(names[i])) =>
                /\ old \in DOMAIN tag_mapping
                /\ tag_mapping[old].name = LastResolvable(names)

\* C23: once the program has started, each old tag is mapped to the code of
\* the last resolvable name listed for it in the mapping file, and the tag
\* delta of a row applies no activist code but those its tags are mapped to:
\* a name listed earlier is never applied on account of that tag.
C23_LastWriteWins ==
    runs > 0 =>
        /\ LastWriteWins
        /\ \A r \in 1..NumRows, c \in AllActivistCodes :
              applied[r][<<"apply_activist_code", c.id>>] > 0
                  => c.id \in ResolvedActivistCodes(dataset.rows[r])

\* Phone_Bank is listed with Phoner and Volunteer and then with an unknown
\* name and Phoner, both being activist codes: the tag delta of the first row
\* has applied Phoner and not Volunteer.
C23_Witness ==
    /\ pc = "log_actions" /\ rowid = 1
    /\ catalog.mapping = << [old |-> "Phone_Bank", new |-> <<"Phoner", "Volunteer">>],
                            [old |-> "Phone_Bank", new |-> <<"Retired", "Phoner">>] >>
    /\ ActivistCode(43, "Volunteer") \in RemoteActivist
    /\ tag_mapping["Phone_Bank"] = ActivistCode(42, "Phoner")
    /\ applied[1][<<"apply_activist_code", 42>>] = 1
    /\ applied[1][<<"apply_activist_code", 43>>] = 0

====
